---- MODULE Spec2Model ----
(***************************************************************************)
(* Model of algorithms/abstract_agent.py: AbstractAgent.test(), the         *)
(* evaluation loop, and AbstractAgent.save_params(), the shared checkpoint  *)
(* writer.  The environment (gym.Env), the concrete agent's select_action   *)
(* and step, the file system and the git repository are external: every     *)
(* value they return is a nondeterministic choice from a small set.         *)
(***************************************************************************)
EXTENDS Integers, Sequences, FiniteSets, TLC

(* ------------------------------ bounds -------------------------------- *)
\* largest args.episode_num tried
MaxEpisodes == 2
\* longest episode (in steps) of an environment whose episode ends; a
\* hanging episode is followed for this many steps too
MaxSteps == 2
\* rewards are multiples of 1/RewardDenom (np.float64 rewards, line 50)
RewardDenom == 2
\* number of save_params calls followed
MaxSaves == 2

(* --------------------------- external values -------------------------- *)
Obs == {"s0", "s1"}
Actions == {"a0", "a1"}
\* rewards in units of 1/RewardDenom: -3/2 and 1/2 with RewardDenom = 2
Rewards == {-3, 1}
\* env's plan for an episode: the number of steps until done=true, or Hang
Hang == -1
EpisodeLengths == (1..MaxSteps) \cup {Hang}
NoObs == "none"
NoAction == "none"

VARIABLES
    \* ---- self.args (fixed before the run)
    episode_num, render, render_after,
    \* ---- locals of test()
    pc, i_episode, state, done, score, action,
    \* ---- the environment and the console, as test() drives them
    remaining,      \* steps left until the env's step returns done=true (Hang: never)
    lastObs,        \* the observation the env returned last (reset or step)
    lastAction,     \* the action select_action returned last
    selArg,         \* the argument of the last select_action call
    stepArg,        \* the argument of the last step call
    trace,          \* the calls test() made, in order ("step_done": a step
                    \* that returned done=true)
    printed,        \* the summary lines printed: <<episode index, score shown>>
    epSteps,        \* step calls of episode i_episode that returned
    epRenders,      \* env.render() calls of episode i_episode (a raising one too)
    epRewards,      \* the rewards the steps of episode i_episode returned, in order
    raisedBy        \* the call whose exception ended test(), or "none"

testVars == <<episode_num, render, render_after, pc, i_episode, state, done,
              score, action, remaining, lastObs, lastAction, selArg, stepArg,
              trace, printed, epSteps, epRenders, epRewards, raisedBy>>

    \* ---- the working directory, the repository and the console, as
    \* ---- save_params() sees them
VARIABLES
    dirExists,      \* whether "./save" exists
    files,          \* the files under "./save": path -> content
    head,           \* hexsha of the repository's HEAD commit, or NoRepo
    saveCount,      \* save_params calls made
    lastSave,       \* the last save_params call: arguments, outcome, state before
    savedCalls,     \* <<name, hexsha, n_episode>> of the calls that returned
    written,        \* the paths handed to torch.save
    console         \* the "[INFO] Saved ..." lines printed: the paths

saveVars == <<dirExists, files, head, saveCount, lastSave, savedCalls, written,
              console>>

vars == <<testVars, saveVars>>

(* ------------------------------ test() -------------------------------- *)

\* a slip: rendering starts one episode late
RenderCond_Strict == render /\ i_episode > render_after

\* line 88: self.args.render and i_episode >= self.args.render_after
RenderCond == render /\ i_episode >= render_after

\* a slip: an episode is cut off after its first step
WhileCond_StepLimit == ~done /\ epSteps < 1

\* line 87: while not done
WhileCond == ~done

\* a slip: one episode too many
ForCond_OffByOne == i_episode + 1 <= episode_num

\* line 82: range(self.args.episode_num) has a next index
ForCond == i_episode + 1 < episode_num

\* a slip: the score is not reset at the start of an episode
ScoreInit_Carried == score

\* line 85: score = 0
ScoreInit == 0

\* line 95: score += reward
ScoreAdd(s, r) == s + r

\* a slip: the state is not advanced
StateAdvance_Stale(old, next_state) == old

\* line 94: state = next_state
StateAdvance(old, next_state) == next_state

\* "%d" % score (line 97): the fractional part is dropped, toward zero
FormatD(s) == IF s >= 0 THEN s \div RewardDenom ELSE -((-s) \div RewardDenom)

\* a variant: the exception is caught and test() goes on to env.close()
Raise_ThenClose(call) ==
    /\ pc' = "close"
    /\ raisedBy' = call
    /\ trace' = Append(trace, call)

\* an uncaught exception leaves test(): nothing else runs
Raise(call) ==
    /\ pc' = "raised"
    /\ raisedBy' = call
    /\ trace' = Append(trace, call)

\* the locals of test() before its first statement
TestStart ==
    /\ pc = "for"
    /\ i_episode = -1
    /\ state = NoObs
    /\ done = FALSE
    /\ score = 0
    /\ action = NoAction
    /\ remaining = 0
    /\ lastObs = NoObs
    /\ lastAction = NoAction
    /\ selArg = NoObs
    /\ stepArg = NoAction
    /\ trace = <<>>
    /\ printed = <<>>
    /\ epSteps = 0
    /\ epRenders = 0
    /\ epRewards = <<>>
    /\ raisedBy = "none"

NoRepo == "no repository"
NoCall == [name |-> "", params |-> "", n_episode |-> 0, sha |-> NoRepo,
           outcome |-> "none", dirBefore |-> FALSE, filesBefore |-> <<>>]

\* the save_params() side when only test() runs
SaveIdle ==
    /\ dirExists = FALSE
    /\ files = <<>>
    /\ head = NoRepo
    /\ saveCount = 0
    /\ lastSave = NoCall
    /\ savedCalls = {}
    /\ written = {}
    /\ console = <<>>

InitTest ==
    /\ TestStart
    /\ episode_num \in 0..MaxEpisodes
    /\ render \in BOOLEAN
    /\ render_after \in 0..MaxEpisodes
    /\ SaveIdle

\* line 82: for i_episode in range(self.args.episode_num)
ForNext ==
    /\ pc = "for"
    /\ UNCHANGED saveVars
    /\ IF ForCond
         THEN /\ i_episode' = i_episode + 1
              /\ pc' = "reset"
              /\ epSteps' = 0
              /\ epRenders' = 0
              /\ epRewards' = <<>>
         ELSE /\ pc' = "close"
              /\ UNCHANGED <<i_episode, epSteps, epRenders, epRewards>>
    /\ UNCHANGED <<episode_num, render, render_after, state, done, score, action,
                   remaining, lastObs, lastAction, selArg, stepArg, trace, printed,
                   raisedBy>>

\* lines 83-85: state = self.env.reset(); done = False; score = 0
Reset ==
    /\ pc = "reset"
    /\ UNCHANGED saveVars
    /\ \/ \E o \in Obs, len \in EpisodeLengths :
            /\ state' = o
            /\ lastObs' = o
            /\ remaining' = len
            /\ done' = FALSE
            /\ score' = ScoreInit
            /\ trace' = Append(trace, "reset")
            /\ pc' = "while"
            /\ UNCHANGED raisedBy
       \/ /\ Raise("reset")
          /\ UNCHANGED <<state, lastObs, remaining, done, score>>
    /\ UNCHANGED <<episode_num, render, render_after, i_episode, action,
                   lastAction, selArg, stepArg, printed, epSteps, epRenders,
                   epRewards>>

\* line 87: while not done
While ==
    /\ pc = "while"
    /\ UNCHANGED saveVars
    /\ pc' = IF WhileCond THEN "render" ELSE "print"
    /\ UNCHANGED <<episode_num, render, render_after, i_episode, state, done,
                   score, action, remaining, lastObs, lastAction, selArg,
                   stepArg, trace, printed, epSteps, epRenders, epRewards,
                   raisedBy>>

\* lines 88-89: if self.args.render and i_episode >= self.args.render_after:
\*                  self.env.render()
Render ==
    /\ pc = "render"
    /\ UNCHANGED saveVars
    /\ epSteps < MaxSteps
    /\ IF RenderCond
         THEN \/ /\ epRenders' = epRenders + 1
                 /\ trace' = Append(trace, "render")
                 /\ pc' = "select"
                 /\ UNCHANGED raisedBy
              \/ /\ Raise("render")
                 /\ epRenders' = epRenders + 1
         ELSE /\ pc' = "select"
              /\ UNCHANGED <<epRenders, trace, raisedBy>>
    /\ UNCHANGED <<episode_num, render, render_after, i_episode, state, done,
                   score, action, remaining, lastObs, lastAction, selArg,
                   stepArg, printed, epSteps, epRewards>>

\* line 91: action = self.select_action(state)
SelectAction ==
    /\ pc = "select"
    /\ UNCHANGED saveVars
    /\ \/ \E a \in Actions :
            /\ action' = a
            /\ lastAction' = a
            /\ selArg' = state
            /\ trace' = Append(trace, "select_action")
            /\ pc' = "step"
            /\ UNCHANGED raisedBy
       \/ /\ Raise("select_action")
          /\ selArg' = state
          /\ UNCHANGED <<action, lastAction>>
    /\ UNCHANGED <<episode_num, render, render_after, i_episode, state, done,
                   score, remaining, lastObs, stepArg, printed, epSteps,
                   epRenders, epRewards>>

\* lines 92-95: next_state, reward, done = self.step(action)
\*              state = next_state; score += reward
Step ==
    /\ pc = "step"
    /\ UNCHANGED saveVars
    /\ \/ \E next_state \in Obs, reward \in Rewards :
            /\ stepArg' = action
            /\ lastObs' = next_state
            /\ done' = (remaining = 1)
            /\ remaining' = IF remaining = Hang THEN Hang ELSE remaining - 1
            /\ state' = StateAdvance(state, next_state)
            /\ score' = ScoreAdd(score, reward)
            /\ epSteps' = epSteps + 1
            /\ epRewards' = Append(epRewards, reward)
            /\ trace' = Append(trace, IF remaining = 1 THEN "step_done" ELSE "step")
            /\ pc' = "while"
            /\ UNCHANGED raisedBy
       \/ /\ Raise("step")
          /\ stepArg' = action
          /\ UNCHANGED <<lastObs, done, remaining, state, score, epSteps,
                         epRewards>>
    /\ UNCHANGED <<episode_num, render, render_after, i_episode, action,
                   lastAction, selArg, printed, epRenders>>

\* line 97: print("[INFO] episode %d\ttotal score: %d" % (i_episode, score))
PrintScore ==
    /\ pc = "print"
    /\ UNCHANGED saveVars
    /\ printed' = Append(printed, <<i_episode, FormatD(score)>>)
    /\ trace' = Append(trace, "print")
    /\ pc' = "for"
    /\ UNCHANGED <<episode_num, render, render_after, i_episode, state, done,
                   score, action, remaining, lastObs, lastAction, selArg,
                   stepArg, epSteps, epRenders, epRewards, raisedBy>>

\* a slip: test() returns without env.close()
Close_Omitted ==
    /\ pc = "close"
    /\ pc' = "returned"
    /\ UNCHANGED <<episode_num, render, render_after, i_episode, state, done,
                   score, action, remaining, lastObs, lastAction, selArg,
                   stepArg, trace, printed, epSteps, epRenders, epRewards,
                   raisedBy, saveVars>>

\* line 100: self.env.close(), then test() returns
Close ==
    /\ pc = "close"
    /\ UNCHANGED saveVars
    /\ trace' = Append(trace, "close")
    /\ pc' = "returned"
    /\ UNCHANGED <<episode_num, render, render_after, i_episode, state, done,
                   score, action, remaining, lastObs, lastAction, selArg,
                   stepArg, printed, epSteps, epRenders, epRewards, raisedBy>>

NextTest ==
    \/ ForNext
    \/ Reset
    \/ While
    \/ Render
    \/ SelectAction
    \/ Step
    \/ PrintScore
    \/ Close

SpecTest == InitTest /\ [][NextTest]_vars

\* test() is a plain sequential loop: its next statement always runs
FairSpecTest == SpecTest /\ WF_vars(NextTest)

(* --------------------------- save_params() ---------------------------- *)

\* repo.head.object.hexsha (line 67): 40 hexadecimal digits.  The first two
\* commits share their first seven digits, the third differs in the seventh.
Commits == {"1f3a9c2000000000000000000000000000000000",
            "1f3a9c2100000000000000000000000000000000",
            "1f3a9c3000000000000000000000000000000000"}
Names == {"m", "m_", "m_1f3a9c2_ep"}
Episodes == {1, 12}
Params == {"params1", "params2"}

\* sha[:7] (line 70)
ShaPrefixLen == 7

\* a file of "./save" that no save_params call wrote
OtherFile == "./save/notes.txt"

Digit(d) ==
    CASE d = 0 -> "0" [] d = 1 -> "1" [] d = 2 -> "2" [] d = 3 -> "3"
      [] d = 4 -> "4" [] d = 5 -> "5" [] d = 6 -> "6" [] d = 7 -> "7"
      [] d = 8 -> "8" [] d = 9 -> "9"

\* str(n_episode) (line 70)
RECURSIVE Str(_)
Str(n) ==
    IF n < 0 THEN "-" \o Str(-n)
    ELSE IF n < 10 THEN Digit(n)
    ELSE Str(n \div 10) \o Digit(n % 10)

\* a slip: the whole hash goes into the file name
ShaPrefix_Whole(sha) == sha

\* sha[:7] (line 70): a slice stops at the end of a shorter string
ShaPrefix(sha) ==
    SubSeq(sha, 1, IF Len(sha) < ShaPrefixLen THEN Len(sha) ELSE ShaPrefixLen)

\* a slip: the episode number is left out of the file name
SavePath_NoEpisode(name, sha, n_episode) ==
    "./save/" \o name \o "_" \o ShaPrefix(sha) \o ".pt"

\* lines 69-71: "./save/" + name + "_" + sha[:7] + "_ep_" + str(n_episode) + ".pt"
SavePath(name, sha, n_episode) ==
    "./save/" \o name \o "_" \o ShaPrefix(sha) \o "_ep_" \o Str(n_episode) \o ".pt"

\* line 63: if not os.path.exists("./save")
NeedMkdir == ~dirExists

\* a variant: an existing file is not replaced
WriteFile_KeepExisting(fs, path, params) ==
    [p \in (DOMAIN fs) \cup {path} |-> IF p \in DOMAIN fs THEN fs[p] ELSE params]

\* line 72: torch.save(params, path) creates the file or replaces its content
WriteFile(fs, path, params) ==
    [p \in (DOMAIN fs) \cup {path} |-> IF p = path THEN params ELSE fs[p]]

InitSave ==
    /\ TestStart
    /\ episode_num = 0
    /\ render = FALSE
    /\ render_after = 0
    /\ head \in Commits \cup {NoRepo}
    /\ \/ /\ dirExists = FALSE
          /\ files = <<>>
       \/ /\ dirExists = TRUE
          /\ files \in {<<>>,
                        [p \in {OtherFile} |-> "notes"],
                        [p \in {OtherFile, "./save/m_1f3a9c2_ep_1.pt"} |-> "old"]}
    /\ saveCount = 0
    /\ lastSave = NoCall
    /\ savedCalls = {}
    /\ written = {}
    /\ console = <<>>

\* lines 62-74, one call.  os.mkdir may fail (OSError) and git.Repo raises
\* when no repository is found; both leave save_params() at once.
SaveParams(name, params, n_episode) ==
    /\ saveCount < MaxSaves
    /\ saveCount' = saveCount + 1
    /\ LET call == [name |-> name, params |-> params, n_episode |-> n_episode,
                    sha |-> head, outcome |-> "ok", dirBefore |-> dirExists,
                    filesBefore |-> files]
           path == SavePath(name, head, n_episode)
       IN  \/ \* line 64 raises
              /\ NeedMkdir
              /\ lastSave' = [call EXCEPT !.outcome = "mkdir failed"]
              /\ UNCHANGED <<dirExists, files, savedCalls, written, console>>
           \/ \* line 66 raises, after line 64 (if run) made the directory
              /\ head = NoRepo
              /\ dirExists' = IF NeedMkdir THEN TRUE ELSE dirExists
              /\ lastSave' = [call EXCEPT !.outcome = "no repository"]
              /\ UNCHANGED <<files, savedCalls, written, console>>
           \/ /\ head # NoRepo
              /\ dirExists' = IF NeedMkdir THEN TRUE ELSE dirExists
              /\ files' = WriteFile(files, path, params)
              /\ written' = written \cup {path}
              /\ savedCalls' = savedCalls \cup {<<name, head, n_episode>>}
              /\ console' = Append(console, path)
              /\ lastSave' = call
    /\ UNCHANGED <<head, testVars>>

SaveParamsCall == \E name \in Names, params \in Params, n_episode \in Episodes :
                     SaveParams(name, params, n_episode)

\* between two calls the repository's HEAD may move to another commit
Checkout ==
    /\ head # NoRepo
    /\ \E c \in Commits \ {head} : head' = c
    /\ UNCHANGED <<dirExists, files, saveCount, lastSave, savedCalls, written,
                   console, testVars>>

NextSave ==
    \/ SaveParamsCall
    \/ Checkout

SpecSave == InitSave /\ [][NextSave]_vars

(* ===================== properties of test() =========================== *)

RECURSIVE SumSeq(_)
SumSeq(q) == IF q = <<>> THEN 0 ELSE q[1] + SumSeq(Tail(q))

CountOf(q, names) == Cardinality({k \in 1..Len(q) : q[k] \in names})

AbsVal(x) == IF x >= 0 THEN x ELSE -x

StepCalls == {"step", "step_done"}

InLoopBody == pc \in {"while", "render", "select", "step"}

\* C1: a test() that returns has run exactly episode_num episodes: that many
\* env.reset() calls, each followed by at least one step and ended by the
\* first step that returned done=true, and one summary line per episode,
\* with the indices 0..episode_num-1 in increasing order.
C1_ExactlyNEpisodes ==
    pc = "returned" =>
        /\ CountOf(trace, {"reset"}) = episode_num
        /\ CountOf(trace, {"step_done"}) = episode_num
        /\ CountOf(trace, {"print"}) = episode_num
        /\ Len(printed) = episode_num
        /\ \A k \in 1..Len(printed) : printed[k][1] = k - 1
        /\ \A k \in 1..Len(trace) :
              /\ trace[k] = "reset" =>
                    /\ k < Len(trace)
                    /\ trace[k + 1] \in {"render", "select_action"}
              /\ trace[k] = "step_done" => trace[k + 1] = "print"
              /\ trace[k] = "step" => trace[k + 1] \in {"render", "select_action"}
              /\ trace[k] = "print" =>
                    /\ trace[k - 1] = "step_done"
                    /\ trace[k + 1] \in {"reset", "close"}

C1_Witness ==
    /\ pc = "returned"
    /\ episode_num = MaxEpisodes
    /\ CountOf(trace, {"step"}) > 0

\* C2: env.render() is called in an episode iff args.render is true and the
\* episode index is >= args.render_after; then it is called exactly once
\* before every step of the episode, and otherwise never in the episode.
C2_RenderIff ==
    LET wanted == render /\ i_episode >= render_after
        \* loop bodies of the current episode that got as far as line 88
        bodies == IF \/ pc \in {"select", "step"}
                     \/ raisedBy \in {"render", "select_action", "step"}
                    THEN epSteps + 1 ELSE epSteps
    IN  /\ epRenders = IF wanted THEN bodies ELSE 0
        /\ ~render => CountOf(trace, {"render"}) = 0
        /\ \A k \in 1..Len(trace) :
              trace[k] = "render" =>
                 /\ trace[k - 1] \in {"reset", "step"}
                 /\ k < Len(trace) => trace[k + 1] = "select_action"

C2_Witness ==
    /\ pc = "print"
    /\ render /\ render_after > 0 /\ i_episode = render_after
    /\ epRenders = MaxSteps
    /\ epSteps = MaxSteps

\* C3: a test() that returns has called env.close() exactly once, as its last
\* call, after the last episode's final step and summary line; with
\* episode_num = 0 close is the only call.  close is never followed by
\* another call.
C3_CloseOnceLast ==
    /\ CountOf(trace, {"close"}) <= 1
    /\ \A k \in 1..Len(trace) : trace[k] = "close" => k = Len(trace)
    /\ pc = "returned" =>
          /\ CountOf(trace, {"close"}) = 1
          /\ trace[Len(trace)] = "close"
          /\ episode_num = 0 => trace = <<"close">>
          /\ episode_num > 0 =>
                /\ trace[Len(trace) - 1] = "print"
                /\ trace[Len(trace) - 2] = "step_done"
          /\ ~ ENABLED NextTest

C3_Witness ==
    /\ pc = "returned"
    /\ episode_num > 0
    /\ CountOf(trace, {"close"}) = 1

C3_WitnessNoEpisode ==
    /\ pc = "returned"
    /\ episode_num = 0
    /\ trace = <<"close">>

\* the summary line of episode i_episode has been printed and no later
\* episode has begun
EpisodeReported ==
    /\ pc \in {"for", "close", "returned"}
    /\ Len(printed) > 0

\* the score shown on the last summary line
ShownScore == printed[Len(printed)][2]

\* C4 as stated: the score reported for an episode equals the sum of the
\* rewards that episode's steps returned (rewards and sum in units of
\* 1/RewardDenom, the score shown in whole units).
C4_ReportedEqualsSum ==
    EpisodeReported => ShownScore * RewardDenom = SumSeq(epRewards)

\* C4 amended: the accumulated score is exactly the sum of the rewards of the
\* current episode's steps, nothing carried over from earlier episodes, and
\* the score shown on the summary line is that sum with its fractional part
\* dropped (rounded toward zero); it is the sum itself when the sum is whole.
C4_ReportedIsTruncatedSum ==
    LET total == SumSeq(epRewards)
    IN  /\ (InLoopBody \/ pc = "print") => score = total
        /\ EpisodeReported =>
              /\ AbsVal(ShownScore) * RewardDenom <= AbsVal(total)
              /\ AbsVal(total) < (AbsVal(ShownScore) + 1) * RewardDenom
              /\ ShownScore * total >= 0
              /\ (total % RewardDenom = 0 => ShownScore * RewardDenom = total)
              /\ printed[Len(printed)][1] = i_episode

C4_Witness ==
    /\ EpisodeReported
    /\ i_episode > 0
    /\ Len(epRewards) = 1
    /\ epRewards[1] = -3
    /\ ShownScore = -1

\* C8: when reset, select_action or step (or render) raises, test() stops at
\* that call: the raising call is the last call made, no summary line is
\* printed for the interrupted episode, env.close() is not called, and nothing
\* runs afterwards.
C8_RaiseAborts ==
    raisedBy # "none" =>
        /\ pc = "raised"
        /\ trace[Len(trace)] = raisedBy
        /\ CountOf(trace, {"close"}) = 0
        /\ Len(printed) = i_episode
        /\ CountOf(trace, {"print"}) = i_episode
        /\ CountOf(trace, {"reset"}) = i_episode + 1
        /\ ~ ENABLED NextTest

C8_Witness ==
    /\ raisedBy = "step"
    /\ i_episode = 1
    /\ epSteps = 1

\* an episode in which done never becomes true is under way
Hung == InLoopBody /\ remaining = Hang

\* C9: test() returns only when every episode it started got done=true from
\* a step; an episode in which done never becomes true is never left: no
\* summary line for it, no later episode, no env.close(); and unless such an
\* episode is met (or a call raises) test() does reach env.close() and return.
C9_TerminatesIffAllDone ==
    /\ [](pc = "returned" =>
            /\ CountOf(trace, {"step_done"}) = CountOf(trace, {"reset"})
            /\ CountOf(trace, {"close"}) = 1)
    /\ [][Hung => /\ Hung' \/ pc' = "raised"
                  /\ printed' = printed
                  /\ i_episode' = i_episode
                  /\ CountOf(trace', {"close", "print", "reset"})
                       = CountOf(trace, {"close", "print", "reset"})]_vars
    /\ [](Hung => ~done)
    /\ <>(pc \in {"returned", "raised"} \/ Hung)

C9_Witness ==
    /\ Hung
    /\ epSteps = MaxSteps
    /\ i_episode = 0
    /\ episode_num > 1

\* C10: in each pass of the inner loop the calls are render (when wanted),
\* select_action, step, in this order; select_action is given the observation
\* the environment returned last (by reset or by the step before), step is
\* given the action select_action has just returned; no other method of the
\* agent is called.
C10_CallOrderAndArguments ==
    /\ \A k \in 1..Len(trace) :
          /\ trace[k] \in {"reset", "render", "select_action", "step",
                           "step_done", "print", "close"}
          /\ trace[k] \in StepCalls => trace[k - 1] = "select_action"
          /\ trace[k] = "select_action" =>
                /\ trace[k - 1] \in {"reset", "render", "step"}
                /\ k < Len(trace) => trace[k + 1] \in StepCalls
          /\ trace[k] = "render" => trace[k - 1] \in {"reset", "step"}
    /\ (trace # <<>> /\ trace[Len(trace)] = "select_action") => selArg = lastObs
    /\ (pc = "step" \/ raisedBy = "step") => selArg = lastObs
    /\ (pc \in {"while", "print"} /\ epSteps > 0) => stepArg = lastAction
    /\ (trace # <<>> /\ trace[Len(trace)] \in StepCalls) => stepArg = lastAction

C10_Witness ==
    /\ pc = "step"
    /\ epSteps = 1
    /\ selArg = lastObs
    /\ selArg = "s1"
    /\ stepArg = "a0"
    /\ lastAction = "a1"

(* ================== properties of save_params() ======================= *)

\* the file name the interface gives a checkpoint, written out on its own
CheckpointPath(name, sha, n_episode) ==
    "./save/" \o name \o "_" \o SubSeq(sha, 1, 7) \o "_ep_"
        \o ToString(n_episode) \o ".pt"

LastPath == CheckpointPath(lastSave.name, lastSave.sha, lastSave.n_episode)

\* C5: a save_params call that found no "./save" directory and a repository
\* leaves the directory in place with exactly one file in it, named
\* <name>_<first 7 digits of HEAD's hash>_ep_<n_episode>.pt and holding
\* params; a call that found the directory leaves it and every other file of
\* it as they were.
C5_CreatesDirAndOneFile ==
    /\ (lastSave.outcome = "ok" /\ ~lastSave.dirBefore) =>
          /\ dirExists
          /\ DOMAIN files = {LastPath}
          /\ files[LastPath] = lastSave.params
    /\ (lastSave.outcome # "none" /\ lastSave.dirBefore) =>
          /\ dirExists
          /\ \A f \in DOMAIN lastSave.filesBefore :
                f # LastPath => /\ f \in DOMAIN files
                                /\ files[f] = lastSave.filesBefore[f]
          /\ lastSave.outcome = "ok" =>
                /\ DOMAIN files = DOMAIN lastSave.filesBefore \cup {LastPath}
                /\ files[LastPath] = lastSave.params

C5_Witness ==
    /\ lastSave.outcome = "ok"
    /\ ~lastSave.dirBefore
    /\ saveCount = 1
    /\ lastSave.n_episode = 12
    /\ DOMAIN files = {"./save/m__1f3a9c3_ep_12.pt"}

\* the call <<name, hexsha, n_episode>> names the checkpoint of the last call
SameTriple(c, call) ==
    /\ c[1] = call.name
    /\ SubSeq(c[2], 1, 7) = SubSeq(call.sha, 1, 7)
    /\ c[3] = call.n_episode

\* C6: a save_params call whose name, revision and episode number were saved
\* before does not raise: it writes to the same path, so no file is added and
\* the file of that triple holds the params of this call.
C6_SecondSaveOverwrites ==
    [][(saveCount' = saveCount + 1
          /\ \E c \in savedCalls : SameTriple(c, lastSave')) =>
            /\ lastSave'.outcome = "ok"
            /\ DOMAIN files' = DOMAIN files
            /\ written' = written
            /\ CheckpointPath(lastSave'.name, lastSave'.sha, lastSave'.n_episode)
                  \in DOMAIN files'
            /\ files'[CheckpointPath(lastSave'.name, lastSave'.sha,
                                     lastSave'.n_episode)] = lastSave'.params
            /\ \A f \in DOMAIN files :
                  f # CheckpointPath(lastSave'.name, lastSave'.sha,
                                     lastSave'.n_episode) => files'[f] = files[f]
      ]_vars

C6_Witness ==
    /\ saveCount = 2
    /\ Cardinality(savedCalls) = 1
    /\ lastSave.params = "params2"
    /\ lastSave.filesBefore = [p \in {LastPath} |-> "params1"]
    /\ files = [p \in {LastPath} |-> "params2"]

\* the (name, 7-digit revision, episode) triples saved so far
SavedTriples == {<<c[1], SubSeq(c[2], 1, 7), c[3]>> : c \in savedCalls}

\* C7: calls whose (name, 7-digit revision, episode) triples differ write to
\* different paths, and calls with the same triple to the same path: the
\* number of files written is the number of distinct triples saved.
C7_OnePathPerTriple ==
    /\ Cardinality(written) = Cardinality(SavedTriples)
    /\ written \subseteq DOMAIN files
    /\ \A c, d \in savedCalls :
          (SavePath(c[1], c[2], c[3]) = SavePath(d[1], d[2], d[3]))
             = (<<c[1], SubSeq(c[2], 1, 7), c[3]>> = <<d[1], SubSeq(d[2], 1, 7), d[3]>>)

C7_Witness ==
    /\ Cardinality(savedCalls) = 2
    /\ Cardinality(SavedTriples) = 1
    /\ Cardinality(written) = 1

C7_WitnessDistinct ==
    /\ Cardinality(SavedTriples) = MaxSaves
    /\ Cardinality(written) = MaxSaves

====
